---- MODULE Spec2Model ----
(***************************************************************************)
(* OctoPrint-Netconnectd: the plugin's client of the netconnectd daemon.   *)
(*                                                                         *)
(* Source: src/octoprint_netconnectd/__init__.py                           *)
(*                                                                         *)
(* Two threads run plugin code: the host's request thread ("api"), which   *)
(* runs on_api_get and on_api_command, and the threading.Timer thread      *)
(* ("timer") that initialize starts.  Every daemon transaction is one run  *)
(* of _send_message; its blocking socket calls (connect, sendall, recv)    *)
(* are the atomic steps, the code between two of them runs with the step   *)
(* that precedes it.                                                       *)
(*                                                                         *)
(* Text is modelled as follows.  A byte stream is a sequence of symbols:   *)
(* NUL, WS (one whitespace byte), "{", "}", and one symbol per member of   *)
(* a JSON object ("result":<payload>, "error":<value>, "foo":1).  Payloads *)
(* of the daemon are named values (StatusOn, Wifis, ...) whose fields the  *)
(* accessors below read the way the Python code indexes them.  Messages    *)
(* built with + and format() are strings built with \o.                    *)
(***************************************************************************)
EXTENDS Naturals, Sequences, FiniteSets, TLC

\* ---------------------------------------------------------------- bounds
\* Most whitespace bytes the daemon puts around a reply (before and after).
MaxPad == 1
\* The same for the study of the receive loop: with RxPad = 7 a reply frame
\* has up to 19 bytes, more than one recv(16) returns.
RxPad == 7

\* ------------------------------------------------------ program constants
\* sock.recv(16)
ChunkSize == 16
\* LOG_STATE_DELAY = 15.0
LOG_STATE_DELAY == 15

Threads == {"api", "timer"}

NUL == "\\0"
WS == " "
None == "None"

\* ------------------------------------------------------------- sequences
RECURSIVE Join(_)
\* "".join(buffer)
Join(chunks) ==
    IF chunks = <<>> THEN <<>> ELSE Head(chunks) \o Join(Tail(chunks))

RECURSIVE LStrip(_)
LStrip(s) ==
    IF s # <<>> /\ Head(s) = WS THEN LStrip(Tail(s)) ELSE s

RECURSIVE RStrip(_)
RStrip(s) ==
    IF s # <<>> /\ s[Len(s)] = WS THEN RStrip(SubSeq(s, 1, Len(s) - 1)) ELSE s

\* str.strip(): leading and trailing whitespace removed (NUL is not whitespace)
Strip(s) == RStrip(LStrip(s))

\* s[:-1]
DropLast(s) == IF s = <<>> THEN <<>> ELSE SubSeq(s, 1, Len(s) - 1)

\* chunk.endswith("\x00")
EndsWithNul(chunk) == chunk # <<>> /\ chunk[Len(chunk)] = NUL

IsPrefix(p, s) == Len(p) <= Len(s) /\ SubSeq(s, 1, Len(p)) = p

Min(a, b) == IF a < b THEN a ELSE b

RECURSIVE Pad(_)
Pad(n) == IF n = 0 THEN <<>> ELSE <<WS>> \o Pad(n - 1)

\* -------------------------------------------------------- daemon payloads
\* Values the daemon may put under "result".
StatusOn == "{wifi:{present:true}}"
StatusOff == "{wifi:{present:false}}"
Wifis == "[{ssid:home,address:aa:bb,signal:80,encrypted:true}]"
WifisBad == "[{ssid:home}]"
Countries == "{country:DE,countries:[DE,US]}"
CountriesBad == "{country:DE}"
Opaque == "true"

\* Values the daemon may put under "error": a string, or (outside the
\* protocol) a JSON number.
ErrString == "unknown command"
ErrNumber == "5"

IsString(v) == v = ErrString

Payloads == {StatusOn, StatusOff, Wifis, WifisBad, Countries, CountriesBad, Opaque}
ErrorValues == {ErrString, ErrNumber}
FooMember == "foo:1"

\* The payloads the daemon answers a command with: the well-formed ones of
\* that command and ill-formed ones.
ResultsFor(message) ==
    CASE message = "status" -> {StatusOn, StatusOff, Opaque}
      [] message = "list_wifi" -> {Wifis, WifisBad}
      [] message = "country_list" -> {Countries, CountriesBad}
      [] OTHER -> {Opaque}

\* JSON texts the daemon may send in reply to a command.
Docs(message) ==
    {<<"{", p, "}">> : p \in ResultsFor(message)}
      \cup {<<"{", e, "}">> : e \in ErrorValues}
      \cup {<<"{", Opaque, ErrString, "}">>}
      \cup {<<"{", "}">>, <<"{", FooMember, "}">>, <<"{", Opaque>>}

Messages ==
    {"status", "list_wifi", "country_list", "config_wifi", "start_wifi",
     "forget_wifi", "reset", "start_ap", "stop_ap", "set_country"}

\* Reply frames: a JSON text, padded with at most p whitespace bytes on
\* either side, then NUL.
Frames(message, p) ==
    {Pad(i) \o d \o Pad(j) \o <<NUL>> :
        d \in Docs(message), i \in 0..p, j \in 0..p}

FramesOf ==
    [p \in {0, MaxPad, RxPad} |-> [message \in Messages |-> Frames(message, p)]]

\* ------------------------------------------------------------ json.loads
\* The decoded value: kind "dict" with the keys present and their values,
\* or kind "error" (ValueError) for a text that is no JSON document.
NoDict == [kind |-> "error", keys |-> {}, result |-> None, error |-> None]

RECURSIVE Members(_, _)
Members(ms, acc) ==
    IF ms = <<>> THEN acc
    ELSE LET m == Head(ms) IN
         IF m \in Payloads
           THEN Members(Tail(ms), [acc EXCEPT !.keys = @ \cup {"result"}, !.result = m])
         ELSE IF m \in ErrorValues
           THEN Members(Tail(ms), [acc EXCEPT !.keys = @ \cup {"error"}, !.error = m])
         ELSE IF m = FooMember
           THEN Members(Tail(ms), [acc EXCEPT !.keys = @ \cup {"foo"}])
         ELSE NoDict

JsonLoads(text) ==
    IF Len(text) >= 2 /\ text[1] = "{" /\ text[Len(text)] = "}"
      THEN Members(SubSeq(text, 2, Len(text) - 1),
                   [kind |-> "dict", keys |-> {}, result |-> None, error |-> None])
      ELSE NoDict

\* repr(response) of a decoded dict
Repr(response) ==
    "{" \o (IF "result" \in response.keys THEN "u'result': " \o response.result ELSE "")
        \o (IF "error" \in response.keys THEN "u'error': " \o response.error ELSE "")
        \o (IF "foo" \in response.keys THEN "u'foo': 1" ELSE "")
        \o "}"

\* ------------------------------------------------------------------ state
\* thread[t]: the state of thread t's plugin code.
\*   stack    the plugin methods t is inside, outermost first
\*   pc       where t is inside _send_message: "connect", "send", "recv",
\*            "ret" (returned, the caller not yet resumed), or "idle"
\*   message, data   _send_message's parameters
\*   sock     the local socket: None, "open", "connected", "closed"
\*   buffer   the local list of received chunks, kept joined: the code reads
\*            it only through "".join(buffer)
\*   eof      a recv of this connection returned the empty chunk
\*   timeout  the value given to sock.settimeout, 0 outside a call
\*   peer     the path given to sock.connect, None before that
\*   text     <<the text given to json.loads>>, <<>> before that
\*   ret      the (flag, content) tuple _send_message returned; exc is the
\*            exception that left _send_message instead, None if none did
\*   raised   the exception raised inside _send_message's try block, or None
\*   opened, closed   sockets created / closed by this invocation
\*   wire     what this invocation wrote to its socket
\*   hist     what the current handler did so far, in order:
\*            <<"call", message>>  _send_message was called
\*            <<"ret", message, flag, content>>  it returned
\*            <<"out", wrapper, exc, val>>  the wrapper that called it
\*            returned val (exc = None) or raised exc with str(e) = val
\*   command  on_api_command's parameter
\*   adminRequired   on_api_command's parameter, "True" or "False"
\*   can      what admin_permission.can() answered, None if it was not asked
\*   status, wifis    on_api_get's locals
\*   written  the analytics records the current handler wrote
\*   result   how the last handler of the thread ended
\* address: self.address.  timerStarted: a Timer thread has been started.
\* pad: the most whitespace bytes the daemon puts before and after a reply
\* (a property of the daemon build; it never changes).
\* settings: the plugin's settings as the host stores them (socket, timeout).
VARIABLES thread, address, timerStarted, pad, settings

vars == <<thread, address, timerStarted, pad, settings>>

\* get_settings_defaults(): socket and timeout
DefaultSocket == "/var/run/netconnectd.sock"

DefaultTimeout == 80

\* The values a settings save may give them.
Sockets == {DefaultSocket, "/tmp/netconnectd.sock"}

Timeouts == {DefaultTimeout, 5}

GetSettingsDefaults == [socket |-> DefaultSocket, timeout |-> DefaultTimeout]

NoRet == [flag |-> FALSE, content |-> None, exc |-> None]

NoException == [type |-> None, msg |-> None]

NoResult ==
    [kind |-> "none", handler |-> None, command |-> None, code |-> None,
     body |-> None, wifis |-> None, status |-> None, country |-> None,
     countries |-> None, adminRequired |-> None, can |-> None]

Fresh ==
    [stack |-> <<>>, pc |-> "idle", message |-> None, data |-> None,
     sock |-> None, timeout |-> 0, peer |-> None,
     buffer |-> <<>>, eof |-> FALSE, text |-> <<>>, ret |-> NoRet,
     raised |-> NoException, opened |-> 0, closed |-> 0, wire |-> <<>>, hist |-> <<>>,
     command |-> None, adminRequired |-> None, can |-> None,
     status |-> None, wifis |-> None, written |-> <<>>,
     result |-> NoResult]

Top(stack) == IF stack = <<>> THEN None ELSE stack[Len(stack)]

Pop(stack) == SubSeq(stack, 1, Len(stack) - 1)

\* --------------------------------------------------------- _send_message
\* json.dumps(obj, separators=(",", ":")) of obj = {message: data}
JsonDumps(message, data) == <<"{", "\"" \o message \o "\":" \o data, "}">>

\* Entry of _send_message up to the first blocking call: the request is
\* serialised, the socket created and its timeout set.
SendMessage(s, message, data) ==
    [s EXCEPT !.stack = Append(@, "_send_message"), !.pc = "connect",
              !.message = message, !.data = data,
              !.sock = "open", !.timeout = settings.timeout, !.peer = None,
              !.buffer = <<>>, !.eof = FALSE, !.text = <<>>,
              !.ret = NoRet, !.raised = NoException, !.opened = 1, !.closed = 0, !.wire = <<>>,
              !.hist = Append(@, <<"call", message>>)]

Bool(flag) == IF flag THEN "True" ELSE "False"

\* Mutant of Finally: the socket is not closed.
FinallyLeak(s) ==
    [s EXCEPT !.stack = Pop(@), !.pc = "ret",
              !.hist = Append(@, <<"ret", s.message, Bool(s.ret.flag), s.ret.content>>)]

\* finally: sock.close(), and _send_message is left.
Finally(s) ==
    [s EXCEPT !.stack = Pop(@), !.pc = "ret", !.sock = "closed", !.closed = @ + 1,
              !.hist = Append(@, <<"ret", s.message, Bool(s.ret.flag), s.ret.content>>)]

\* A return statement inside the try block, then the finally clause.
ReturnTuple(s, flag, content) ==
    Finally([s EXCEPT !.ret = [flag |-> flag, content |-> content, exc |-> None]])

\* Mutant of Except: only socket errors are caught (except socket.error),
\* any other exception leaves _send_message.
ExceptNarrow(s, type, e) ==
    IF type \in {"socket.error", "socket.timeout"}
      THEN Finally([s EXCEPT !.raised = [type |-> type, msg |-> e],
                             !.ret = [flag |-> FALSE, exc |-> None,
                                      content |-> "Error while talking to netconnectd: " \o e]])
      ELSE Finally([s EXCEPT !.raised = [type |-> type, msg |-> e],
                             !.ret = [flag |-> FALSE, exc |-> type, content |-> e]])

\* An exception of the given type with str(e) = e is raised inside the try
\* block: except Exception catches it whatever its type and returns the
\* Failure, then the finally clause.
Except(s, type, e) ==
    ReturnTuple([s EXCEPT !.raised = [type |-> type, msg |-> e]],
                FALSE, "Error while talking to netconnectd: " \o e)

\* Mutant of Interpret: no else branch, response["error"] is read whenever
\* "result" is missing (a KeyError when "error" is missing too).
InterpretNoElse(s, response) ==
    IF "result" \in response.keys
      THEN ReturnTuple(s, TRUE, response.result)
    ELSE IF "error" \in response.keys /\ IsString(response.error)
      THEN ReturnTuple(s, FALSE, response.error)
    ELSE Except(s, IF "error" \in response.keys THEN "TypeError" ELSE "KeyError",
                IF "error" \in response.keys
                  THEN "cannot concatenate 'str' and 'int' objects" ELSE "'error'")

\* The inspection of the decoded response.
Interpret(s, response) ==
    IF "result" \in response.keys
      THEN ReturnTuple(s, TRUE, response.result)
    ELSE IF "error" \in response.keys
      THEN IF IsString(response.error)
             THEN ReturnTuple(s, FALSE, response.error)
             \* the log line's "..." + response["error"] raises TypeError
             ELSE Except(s, "TypeError", "cannot concatenate 'str' and 'int' objects")
    ELSE ReturnTuple(s, FALSE, "Unknown response from netconnectd: " \o Repr(response))

\* data = "".join(buffer).strip()[:-1]
Data(buffer) == DropLast(Strip(buffer))

\* After the receive loop: join, strip, decode, inspect.
Decode(s) ==
    LET text == Strip(Data(s.buffer))
        response == JsonLoads(text)
        r == [s EXCEPT !.text = <<text>>]
    IN  IF response.kind = "error"
          THEN Except(r, "ValueError", "No JSON object could be decoded")
          ELSE Interpret(r, response)

\* Mutant of RecvChunk: the loop takes a chunk shorter than 16 bytes for the
\* last one of the reply.
RecvChunkShortRead(s, chunk) ==
    LET r == [s EXCEPT !.buffer = Join(<<@, chunk>>)] IN
    IF Len(chunk) < ChunkSize THEN Decode(r) ELSE r

\* One pass of the receive loop with a non-empty chunk.
RecvChunk(s, chunk) ==
    LET r == [s EXCEPT !.buffer = Join(<<@, chunk>>)] IN
    IF EndsWithNul(chunk) THEN Decode(r) ELSE r

\* One pass of the receive loop with the empty chunk (end of stream).
RecvEmpty(s) == [s EXCEPT !.eof = TRUE]

\* Mutant of RecvTimeout: the first timeout of a call is answered by a retry
\* on a new connection.
RecvTimeoutRetry(s) ==
    IF s.opened < 2
      THEN [s EXCEPT !.pc = "connect", !.sock = "open", !.opened = @ + 1, !.closed = @ + 1]
      ELSE Except(s, "socket.timeout", "timed out")

\* recv raised socket.timeout
RecvTimeout(s) == Except(s, "socket.timeout", "timed out")

\* Mutant of NextChunks: the socket is shared by the calls in flight (kept in
\* the plugin object), so that recv may return bytes of the reply to the
\* request of any of them.
NextChunksShared(s) ==
    LET got == s.buffer
        asked == {thread[u].message : u \in {v \in Threads : thread[v].pc = "recv"}}
    IN  UNION {{SubSeq(f, Len(got) + 1, Len(got) + n) :
                    n \in 1..Min(ChunkSize, Len(f) - Len(got))} :
               f \in {g \in UNION {FramesOf[pad][m] : m \in asked} : IsPrefix(got, g)}}

\* The chunks recv(16) may return next: the daemon goes on with any of its
\* reply frames that starts with what it has sent so far.
NextChunks(s) ==
    LET got == s.buffer IN
    UNION {{SubSeq(f, Len(got) + 1, Len(got) + n) :
                n \in 1..Min(ChunkSize, Len(f) - Len(got))} :
           f \in {g \in FramesOf[pad][s.message] : IsPrefix(got, g)}}

Set(t, s) == thread' = [thread EXCEPT ![t] = s]

\* sock.connect(self.address)
Connect(t) ==
    /\ thread[t].pc = "connect"
    /\ \/ Set(t, [thread[t] EXCEPT !.pc = "send", !.sock = "connected", !.peer = address])
       \/ Set(t, Except([thread[t] EXCEPT !.peer = address],
                        "socket.error", "[Errno 111] Connection refused"))
    /\ UNCHANGED <<address, timerStarted, pad, settings>>

\* Mutant of Sendall: the request is written without the terminator.
SendallNoTerminator(t) ==
    /\ thread[t].pc = "send"
    /\ \/ Set(t, [thread[t] EXCEPT !.pc = "recv",
                    !.wire = @ \o JsonDumps(thread[t].message, thread[t].data)])
       \/ Set(t, Except(thread[t], "socket.error", "[Errno 32] Broken pipe"))
    /\ UNCHANGED <<address, timerStarted, pad, settings>>

\* sock.sendall(js + "\x00")
Sendall(t) ==
    /\ thread[t].pc = "send"
    /\ \/ Set(t, [thread[t] EXCEPT !.pc = "recv",
                    !.wire = @ \o JsonDumps(thread[t].message, thread[t].data) \o <<NUL>>])
       \/ Set(t, Except(thread[t], "socket.error", "[Errno 32] Broken pipe"))
    /\ UNCHANGED <<address, timerStarted, pad, settings>>

\* chunk = sock.recv(16) returns, and the rest of the loop body: the daemon
\* sent bytes, or it closed the connection (from then on every recv returns
\* the empty chunk at once).
Recv(t) ==
    /\ thread[t].pc = "recv"
    /\ \/ /\ ~thread[t].eof
          /\ \E chunk \in NextChunks(thread[t]) : Set(t, RecvChunk(thread[t], chunk))
       \/ Set(t, RecvEmpty(thread[t]))
    /\ UNCHANGED <<address, timerStarted, pad, settings>>

\* chunk = sock.recv(16) raises socket.timeout: nothing came within the
\* timeout set by settimeout, and the connection is still open.
RecvTimesOut(t) ==
    /\ thread[t].pc = "recv"
    /\ ~thread[t].eof
    /\ Set(t, RecvTimeout(thread[t]))
    /\ UNCHANGED <<address, timerStarted, pad, settings>>

\* ------------------------------------------------------- calls and returns
\* What a call hands back to its caller: a value, or an exception with its
\* str(e).
Value(v) == [exc |-> None, val |-> v]

Raised(type, msg) == [exc |-> type, val |-> msg]

\* The wrapper on top of the stack is left with outcome out:
\* _send_message's locals are gone.
Leave(s, out) ==
    [s EXCEPT !.stack = Pop(@), !.pc = "idle", !.message = None, !.data = None,
              !.sock = None, !.timeout = 0, !.peer = None,
              !.buffer = <<>>, !.eof = FALSE, !.text = <<>>,
              !.ret = NoRet, !.raised = NoException, !.opened = 0, !.closed = 0, !.wire = <<>>,
              !.hist = Append(@, <<"out", Top(s.stack), out.exc, out.val>>)]

\* The handler at the bottom of the stack ends.
Finish(s, result) ==
    [s EXCEPT !.stack = <<>>, !.command = None, !.adminRequired = None, !.can = None,
              !.status = None, !.wifis = None,
              !.result = [result EXCEPT !.handler = s.stack[1], !.command = s.command,
                                        !.adminRequired = s.adminRequired,
                                        !.can = s.can]]

Returns(body) == [NoResult EXCEPT !.kind = "return", !.body = body]

Raises(type) == [NoResult EXCEPT !.kind = "raise", !.code = type]

\* jsonify(dict(error=str(e)))
JsonError(msg) == [NoResult EXCEPT !.kind = "return", !.body = "error", !.code = msg]

\* self._analytics.write_wifi_config_command(command, success=..., err=...)
WriteAnalytics(s, success, err) ==
    [s EXCEPT !.written = Append(@, [command |-> s.command, success |-> success, err |-> err])]

\* ------------------------------------------------------ payload accessors
\* status["wifi"]["present"]
WifiPresent(status) ==
    CASE status = StatusOn -> Value("True")
      [] status = StatusOff -> Value("False")
      [] OTHER -> Raised("TypeError", "'bool' object has no attribute '__getitem__'")

\* The loop of _get_wifi_list over content.
WifiResult(content) ==
    CASE content = Wifis -> Value("[{ssid:home,address:aa:bb,quality:80,encrypted:true}]")
      [] content = WifisBad -> Raised("KeyError", "'address'")
      [] OTHER -> Raised("TypeError", "'bool' object is not iterable")

EmptyCountries == "{country:,countries:[]}"

\* The loop of _get_country_list over content["countries"], and content["country"].
CountryResult(content) ==
    CASE content = Countries -> Value(Countries)
      [] content = CountriesBad -> Raised("KeyError", "'countries'")
      [] OTHER -> Raised("TypeError", "'bool' object has no attribute '__getitem__'")

\* data["country"], data["countries"] of what _get_country_list returns
CountryOf(data) == IF data = Countries THEN "DE" ELSE ""

CountriesOf(data) == IF data = Countries THEN "[DE,US]" ELSE "[]"

\* ------------------------------------------------- calls of the wrappers
Call(s, wrapper, message, data) ==
    SendMessage([s EXCEPT !.stack = Append(@, wrapper)], message, data)

CallGetStatus(s) == Call(s, "_get_status", "status", "{}")

CallGetWifiList(s, force) ==
    Call(s, "_get_wifi_list", "list_wifi", IF force THEN "{\"force\":true}" ELSE "{}")

CallGetCountryList(s) == Call(s, "_get_country_list", "country_list", "{}")

CallConfigureAndSelectWifi(s, ssid, psk, force) ==
    Call(s, "_configure_and_select_wifi", "config_wifi",
         "{\"ssid\":\"" \o ssid \o "\",\"psk\":\"" \o psk \o "\",\"force\":"
            \o (IF force THEN "true" ELSE "false") \o "}")

CallForgetWifi(s) == Call(s, "_forget_wifi", "forget_wifi", "{}")

CallReset(s) == Call(s, "_reset", "reset", "{}")

CallStartAp(s) == Call(s, "_start_ap", "start_ap", "{}")

CallStopAp(s) == Call(s, "_stop_ap", "stop_ap", "{}")

CallSetCountry(s, country_code) ==
    Call(s, "_set_country", "set_country", "{\"country_code\":\"" \o country_code \o "\"}")

\* ----------------------------------------------------------- on_api_get
\* Mutant of OnApiGetResume: the wifi list is fetched whatever wifi.present.
OnApiGetAlwaysLists(s, callee, out) ==
    IF out.exc # None THEN Finish(s, JsonError(out.val))
    ELSE IF callee = "_get_status" THEN
        LET present == WifiPresent(out.val) IN
        IF present.exc # None THEN Finish(s, JsonError(present.val))
        ELSE CallGetWifiList([s EXCEPT !.status = out.val], FALSE)
    ELSE IF callee = "_get_wifi_list" THEN
        CallGetCountryList([s EXCEPT !.wifis = out.val])
    ELSE
        Finish(s, [NoResult EXCEPT !.kind = "return", !.body = "answer",
                                   !.wifis = s.wifis, !.status = s.status,
                                   !.country = CountryOf(out.val),
                                   !.countries = CountriesOf(out.val)])

\* Mutant of OnApiGetResume: no try/except around the status and wifi list
\* part, an exception of _get_status or _get_wifi_list leaves on_api_get.
OnApiGetNoTry(s, callee, out) ==
    IF out.exc # None THEN Finish(s, Raises(out.exc))
    ELSE IF callee = "_get_status" THEN
        LET present == WifiPresent(out.val) IN
        IF present.exc # None THEN Finish(s, Raises(present.exc))
        ELSE IF present.val = "True"
          THEN CallGetWifiList([s EXCEPT !.status = out.val], FALSE)
          ELSE CallGetCountryList([s EXCEPT !.status = out.val, !.wifis = "[]"])
    ELSE IF callee = "_get_wifi_list" THEN
        CallGetCountryList([s EXCEPT !.wifis = out.val])
    ELSE
        Finish(s, [NoResult EXCEPT !.kind = "return", !.body = "answer",
                                   !.wifis = s.wifis, !.status = s.status,
                                   !.country = CountryOf(out.val),
                                   !.countries = CountriesOf(out.val)])

\* on_api_get after the call of callee came back with out.
OnApiGetResume(s, callee, out) ==
    IF out.exc # None THEN Finish(s, JsonError(out.val))
    ELSE IF callee = "_get_status" THEN
        LET present == WifiPresent(out.val) IN
        IF present.exc # None THEN Finish(s, JsonError(present.val))
        ELSE IF present.val = "True"
          THEN CallGetWifiList([s EXCEPT !.status = out.val], FALSE)
          ELSE CallGetCountryList([s EXCEPT !.status = out.val, !.wifis = "[]"])
    ELSE IF callee = "_get_wifi_list" THEN
        CallGetCountryList([s EXCEPT !.wifis = out.val])
    ELSE
        Finish(s, [NoResult EXCEPT !.kind = "return", !.body = "answer",
                                   !.wifis = s.wifis, !.status = s.status,
                                   !.country = CountryOf(out.val),
                                   !.countries = CountriesOf(out.val)])

\* ------------------------------------------------------- on_api_command
Commands ==
    {"start_ap", "stop_ap", "refresh_wifi", "configure_wifi", "forget_wifi",
     "reset", "set_country"}

\* except RuntimeError as e: (any other exception passes through)
OnApiCommandExcept(s, out) ==
    IF out.exc = "RuntimeError"
      THEN Finish(WriteAnalytics(s, FALSE, out.val), Raises("RuntimeError"))
      ELSE Finish(s, Raises(out.exc))

\* The parameters of on_api_command and, when the code asks for it, the
\* answer of admin_permission.can().
Entered(s, adminRequired, can) ==
    [s EXCEPT !.adminRequired = Bool(adminRequired),
              !.can = IF s.command # "refresh_wifi" /\ adminRequired
                        THEN Bool(can) ELSE None]

\* The commands after the admin check.
Dispatch(s) ==
    CASE s.command = "configure_wifi" ->
            CallConfigureAndSelectWifi(s, "home", "secret", FALSE)
      [] s.command = "forget_wifi" -> CallForgetWifi(s)
      [] s.command = "reset" -> CallReset(s)
      [] s.command = "start_ap" -> CallStartAp(s)
      [] s.command = "stop_ap" -> CallStopAp(s)
      [] s.command = "set_country" -> CallSetCountry(s, "DE")

\* Mutant of OnApiCommandBody: the admin check is made for reset only.
OnApiCommandCheckResetOnly(s, adminRequired, can) ==
    LET r == Entered(s, adminRequired, can) IN
    IF r.command = "refresh_wifi"
      THEN CallGetWifiList(WriteAnalytics(r, TRUE, None), TRUE)
    ELSE IF r.command = "reset" /\ adminRequired /\ ~can
      THEN Finish(WriteAnalytics(r, FALSE, "Insufficient rights"),
                  [Returns("Insufficient rights") EXCEPT !.code = "403"])
    ELSE Dispatch(r)

\* on_api_command from its entry to its first daemon call
OnApiCommandBody(s, adminRequired, can) ==
    LET r == Entered(s, adminRequired, can) IN
    IF r.command = "refresh_wifi"
      THEN CallGetWifiList(WriteAnalytics(r, TRUE, None), TRUE)
    ELSE IF adminRequired /\ ~can
      THEN Finish(WriteAnalytics(r, FALSE, "Insufficient rights"),
                  [Returns("Insufficient rights") EXCEPT !.code = "403"])
    ELSE Dispatch(r)

\* on_api_command after the call of callee came back with out.
OnApiCommandResume(s, callee, out) ==
    IF out.exc # None THEN OnApiCommandExcept(s, out)
    ELSE IF s.command = "refresh_wifi" THEN Finish(s, Returns(out.val))
    ELSE Finish(WriteAnalytics(s, TRUE, None), Returns(None))

\* ----------------------------------------------------- _log_state_timed
\* The Timer thread's function after _get_status came back: the message is
\* logged, or the exception ends the thread.
LogStateResume(s, out) ==
    IF out.exc # None THEN Finish(s, Raises(out.exc))
    ELSE Finish(s, Returns("Netconnectd status: " \o out.val))

\* The caller on top of the stack goes on.
Resume(s, callee, out) ==
    CASE Top(s.stack) = "on_api_get" -> OnApiGetResume(s, callee, out)
      [] Top(s.stack) = "on_api_command" -> OnApiCommandResume(s, callee, out)
      [] Top(s.stack) = "_log_state_timed" -> LogStateResume(s, out)

\* ------------------------------------------------- the wrappers' returns
\* Mutant of Checked: the flag is not looked at.
CheckedBlind(r, prefix, value) ==
    IF r.exc # None THEN Raised(r.exc, r.content) ELSE value

\* flag, content = self._send_message(...)
\* if not flag: raise RuntimeError(prefix + content)
Checked(r, prefix, value) ==
    IF r.exc # None THEN Raised(r.exc, r.content)
    ELSE IF ~r.flag THEN Raised("RuntimeError", prefix \o r.content)
    ELSE value

\* _get_status after _send_message
GetStatusOutcome(r) == Checked(r, "Error while querying status: ", Value(r.content))

\* _get_wifi_list after _send_message
GetWifiListOutcome(r) ==
    Checked(r, "Error while listing wifi: ", WifiResult(r.content))

\* Mutant of GetCountryListOutcome: no try/except around the body.
GetCountryListUncaught(r) ==
    Checked(r, "Error while getting countries wifi: ", CountryResult(r.content))

\* _get_country_list after _send_message: every exception is caught
GetCountryListOutcome(r) ==
    LET out == Checked(r, "Error while getting countries wifi: ", CountryResult(r.content))
    IN IF out.exc # None THEN Value(EmptyCountries) ELSE out

ForgetWifiOutcome(r) == Checked(r, "Error while forgetting wifi: ", Value(None))

ResetOutcome(r) ==
    Checked(r, "Error while factory resetting netconnectd: ", Value(None))

StartApOutcome(r) == Checked(r, "Error while starting ap: ", Value(None))

StopApOutcome(r) == Checked(r, "Error while stopping ap: ", Value(None))

SetCountryOutcome(r) == Checked(r, "Error while setting country: ", Value(None))

ConfigWifiOutcome(r) == Checked(r, "Error while configuring wifi: ", Value(None))

StartWifiOutcome(r) == Checked(r, "Error while selecting wifi: ", Value(None))

\* Mutant of ConfigureAndSelectWifiStep: the flag of config_wifi is not
\* checked before start_wifi is sent.
ConfigureAndSelectWifiUnchecked(s) ==
    IF s.message = "config_wifi"
      THEN SendMessage([s EXCEPT !.pc = "idle"], "start_wifi", "{}")
      ELSE Resume(Leave(s, StartWifiOutcome(s.ret)),
                  "_configure_and_select_wifi", StartWifiOutcome(s.ret))

\* _configure_and_select_wifi after one of its two _send_message calls
ConfigureAndSelectWifiStep(s) ==
    IF s.message = "config_wifi"
      THEN IF ConfigWifiOutcome(s.ret).exc # None
             THEN Resume(Leave(s, ConfigWifiOutcome(s.ret)),
                         "_configure_and_select_wifi", ConfigWifiOutcome(s.ret))
             ELSE SendMessage([s EXCEPT !.pc = "idle"], "start_wifi", "{}")
      ELSE Resume(Leave(s, StartWifiOutcome(s.ret)),
                  "_configure_and_select_wifi", StartWifiOutcome(s.ret))

Outcome(wrapper, r) ==
    CASE wrapper = "_get_status" -> GetStatusOutcome(r)
      [] wrapper = "_get_wifi_list" -> GetWifiListOutcome(r)
      [] wrapper = "_get_country_list" -> GetCountryListOutcome(r)
      [] wrapper = "_forget_wifi" -> ForgetWifiOutcome(r)
      [] wrapper = "_reset" -> ResetOutcome(r)
      [] wrapper = "_start_ap" -> StartApOutcome(r)
      [] wrapper = "_stop_ap" -> StopApOutcome(r)
      [] wrapper = "_set_country" -> SetCountryOutcome(r)

SingleWrappers ==
    {"_get_status", "_get_wifi_list", "_get_country_list", "_forget_wifi",
     "_reset", "_start_ap", "_stop_ap", "_set_country"}

\* ---------------------------------------------------------------- actions
Init ==
    /\ thread = [t \in Threads |-> Fresh]
    /\ address = None
    /\ timerStarted = FALSE
    /\ pad = 0
    /\ settings = GetSettingsDefaults

\* _log_state_timed(delay) on thread t
LogStateTimed(t, delay) ==
    IF delay > 0
      THEN /\ timerStarted' = TRUE
           /\ thread' = [thread EXCEPT !["timer"] = [Fresh EXCEPT !.stack = <<"Timer">>]]
      ELSE /\ Set(t, CallGetStatus([Fresh EXCEPT !.stack = <<"_log_state_timed">>]))
           /\ UNCHANGED timerStarted

\* initialize(), run once by the host before it serves requests
Initialize ==
    /\ address = None
    /\ address' = settings.socket
    /\ LogStateTimed("api", LOG_STATE_DELAY)
    /\ UNCHANGED <<pad, settings>>

\* The Timer started by initialize expires and calls _log_state_timed().
TimerFire(t) ==
    /\ thread[t].stack = <<"Timer">>
    /\ LogStateTimed(t, 0)
    /\ UNCHANGED <<address, pad, settings>>

Ready(t) == t = "api" /\ address # None /\ thread[t].stack = <<>>

\* on_api_get(request) up to its first daemon call
OnApiGet(t) ==
    /\ Ready(t)
    /\ Set(t, CallGetStatus([Fresh EXCEPT !.stack = <<"on_api_get">>]))
    /\ UNCHANGED <<address, timerStarted, pad, settings>>

\* on_api_command(command, data, adminRequired) up to its first daemon call;
\* can is what admin_permission.can() answers
OnApiCommand(t) ==
    /\ Ready(t)
    /\ \E command \in Commands, adminRequired \in BOOLEAN, can \in BOOLEAN :
          Set(t, OnApiCommandBody([Fresh EXCEPT !.stack = <<"on_api_command">>,
                                                !.command = command],
                                  adminRequired, can))
    /\ UNCHANGED <<address, timerStarted, pad, settings>>

\* A wrapper with one transaction goes on after _send_message returned.
WrapperReturn(t) ==
    /\ thread[t].pc = "ret"
    /\ Top(thread[t].stack) \in SingleWrappers
    /\ LET out == Outcome(Top(thread[t].stack), thread[t].ret) IN
       Set(t, Resume(Leave(thread[t], out), Top(thread[t].stack), out))
    /\ UNCHANGED <<address, timerStarted, pad, settings>>

\* _configure_and_select_wifi goes on after _send_message returned.
ConfigureAndSelectWifi(t) ==
    /\ thread[t].pc = "ret"
    /\ Top(thread[t].stack) = "_configure_and_select_wifi"
    /\ Set(t, ConfigureAndSelectWifiStep(thread[t]))
    /\ UNCHANGED <<address, timerStarted, pad, settings>>

Step(t) ==
    \/ TimerFire(t)
    \/ OnApiGet(t)
    \/ OnApiCommand(t)
    \/ Connect(t)
    \/ Sendall(t)
    \/ Recv(t)
    \/ RecvTimesOut(t)
    \/ WrapperReturn(t)
    \/ ConfigureAndSelectWifi(t)

Next == Initialize \/ \E t \in Threads : Step(t)

\* The plugin with its two threads, against a daemon that pads no reply,
\* while its settings are left as they are.
Spec == Init /\ [][Next]_vars

\* ------------------------------------------------------ settings saves
\* Mutant of OnSettingsSave: the settings are stored, self.address is not
\* read again.
OnSettingsSaveStale ==
    /\ address # None
    /\ \E socket \in Sockets, timeout \in Timeouts :
          settings' = [socket |-> socket, timeout |-> timeout]
    /\ UNCHANGED <<thread, address, timerStarted, pad>>

\* on_settings_save(data), called by the host when the settings are saved
\* (on a thread of its own, at any time after initialize): the host stores
\* data, which may set the socket and the timeout, then self.address is read
\* from the settings again.
OnSettingsSave ==
    /\ address # None
    /\ \E socket \in Sockets, timeout \in Timeouts :
          settings' = [socket |-> socket, timeout |-> timeout]
    /\ address' = settings'.socket
    /\ UNCHANGED <<thread, timerStarted, pad>>

\* The plugin after its construction, with the default settings.
InitCfg ==
    /\ thread = [t \in Threads |-> Fresh]
    /\ address = None
    /\ timerStarted = FALSE
    /\ pad = 0
    /\ settings = GetSettingsDefaults

\* The request thread and the settings saves; the Timer started by
\* initialize has not expired.
NextCfg ==
    \/ Initialize
    \/ OnSettingsSave
    \/ \E t \in Threads :
          \/ OnApiGet(t)
          \/ OnApiCommand(t)
          \/ Connect(t)
          \/ Sendall(t)
          \/ Recv(t)
          \/ RecvTimesOut(t)
          \/ WrapperReturn(t)
          \/ ConfigureAndSelectWifi(t)

SpecCfg == InitCfg /\ [][NextCfg]_vars

\* ------------------------------------------- one transaction on its own
\* _send_message was just called on the request thread (by whatever caller)
\* with any of the daemon's commands; the Timer of initialize has not
\* expired; the daemon pads its replies.
InitTx ==
    /\ settings = GetSettingsDefaults
    /\ \E message \in Messages :
          thread = [t \in Threads |->
                      IF t = "api"
                        THEN SendMessage([Fresh EXCEPT !.stack = <<"caller">>], message, "{}")
                        ELSE [Fresh EXCEPT !.stack = <<"Timer">>]]
    /\ address = DefaultSocket
    /\ timerStarted = TRUE
    /\ pad = MaxPad

Transact(t) == Connect(t) \/ Sendall(t) \/ Recv(t) \/ RecvTimesOut(t)

NextTx == \E t \in Threads : Transact(t)

SpecTx == InitTx /\ [][NextTx]_vars

\* ------------------------------------------------ the receive loop alone
\* _send_message was just called for "status" against a daemon that pads its
\* replies with up to RxPad whitespace bytes on either side.
InitRx ==
    /\ settings = GetSettingsDefaults
    /\ thread = [t \in Threads |->
                   IF t = "api"
                     THEN SendMessage([Fresh EXCEPT !.stack = <<"caller">>], "status", "{}")
                     ELSE [Fresh EXCEPT !.stack = <<"Timer">>]]
    /\ address = DefaultSocket
    /\ timerStarted = TRUE
    /\ pad = RxPad

SpecRx == InitRx /\ [][NextTx]_vars

\* settimeout makes every blocking socket call come back: connect and
\* sendall succeed or raise, and a recv that stays without data and without
\* the end of the stream raises socket.timeout.
FairTx ==
    /\ SpecTx
    /\ \A t \in Threads : WF_vars(Connect(t) \/ Sendall(t))
    /\ \A t \in Threads : WF_vars(RecvTimesOut(t))

\* ------------------------------------------------------ the poller alone
\* The plugin from its construction with no API request coming in: only
\* initialize and the Timer thread run.  The daemon pads its replies.
InitPoll ==
    /\ thread = [t \in Threads |-> Fresh]
    /\ address = None
    /\ timerStarted = FALSE
    /\ pad = MaxPad
    /\ settings = GetSettingsDefaults

NextPoll ==
    \/ Initialize
    \/ \E t \in Threads : TimerFire(t) \/ Transact(t) \/ WrapperReturn(t)

SpecPoll == InitPoll /\ [][NextPoll]_vars

\* The host calls initialize, a started Timer expires, the blocking socket
\* calls come back (settimeout) and code that can go on does.
FairPoll ==
    /\ SpecPoll
    /\ WF_vars(Initialize)
    /\ \A t \in Threads : WF_vars(TimerFire(t))
    /\ \A t \in Threads : WF_vars(Connect(t) \/ Sendall(t))
    /\ \A t \in Threads : WF_vars(RecvTimesOut(t))
    /\ \A t \in Threads : WF_vars(WrapperReturn(t))

\* ================================================================ claims
InTransaction(s) == s.pc \in {"connect", "send", "recv"}

\* The decoded response of a transaction whose receive loop ended.
Response(s) == JsonLoads(Strip(Data(s.buffer)))

\* _send_message returned after its receive loop ended on a terminated
\* chunk and the text decoded to an object.
Decoded(s) ==
    /\ s.pc = "ret"
    /\ EndsWithNul(s.buffer)
    /\ Response(s).kind = "dict"

Failure(content) == [flag |-> FALSE, content |-> content, exc |-> None]

Success(content) == [flag |-> TRUE, content |-> content, exc |-> None]

TalkError(e) == Failure("Error while talking to netconnectd: " \o e)

\* The handler thread t runs, or the last one it ran.
HandlerOf(s) == IF s.stack # <<>> THEN s.stack[1] ELSE s.result.handler

CommandOf(s) == IF s.stack # <<>> THEN s.command ELSE s.result.command

Ended(s) == s.stack = <<>> /\ s.result.kind # "none"

\* Transactions of a handler are sequential: a call is followed by its own
\* return before anything else happens.
Sequential(h) ==
    \A i \in 1..Len(h) :
        /\ h[i][1] = "call" /\ i < Len(h) => h[i + 1][1] = "ret" /\ h[i + 1][2] = h[i][2]
        /\ h[i][1] = "ret" => i > 1 /\ h[i - 1] = <<"call", h[i][2]>>
        /\ h[i][1] = "out" => i > 1 /\ h[i - 1][1] = "ret"

FailedRet(e) == e[1] = "ret" /\ e[3] = "False"

\* C1: once recv has returned the empty chunk (the daemon closed the
\* connection before a chunk ended with NUL), the transaction is over and
\* has returned a Failure.  The code goes back to recv instead.
C1_EofEndsTransaction ==
    \A t \in Threads :
        thread[t].eof => thread[t].pc = "ret" /\ ~thread[t].ret.flag

\* C2: a running invocation of _send_message holds exactly one socket, a new
\* one of its own, and when it has returned, on whatever path, that one
\* socket is closed.
C2_OneConnectionClosedOnReturn ==
    \A t \in Threads :
        /\ InTransaction(thread[t]) =>
              /\ thread[t].opened = 1 /\ thread[t].closed = 0
              /\ thread[t].sock = IF thread[t].pc = "connect" THEN "open" ELSE "connected"
        /\ thread[t].pc = "ret" =>
              /\ thread[t].opened = 1 /\ thread[t].closed = 1
              /\ thread[t].sock = "closed"

\* A later call of a handler (not its first) timed out and has returned with
\* its socket closed.
C2_Witness ==
    \E t \in Threads :
        /\ thread[t].pc = "ret"
        /\ thread[t].raised.type = "socket.timeout"
        /\ Len(thread[t].hist) > 4
        /\ thread[t].sock = "closed"

\* The call ended by the timeout: the Failure is returned, the one
\* connection is closed and the request went out once.
TimedOut(s) ==
    /\ s.pc = "ret"
    /\ s.ret = TalkError("timed out")
    /\ s.sock = "closed" /\ s.opened = 1 /\ s.closed = 1
    /\ s.wire = JsonDumps(s.message, s.data) \o <<NUL>>

\* C3: a call that waits for the reply of a daemon that has sent nothing,
\* and goes on sending nothing without closing, ends by the timeout.
C3_SilentDaemonTimesOut ==
    \A t \in Threads :
        (thread[t].pc = "recv" /\ thread[t].buffer = <<>> /\ ~thread[t].eof)
          ~> (thread[t].buffer # <<>> \/ thread[t].eof \/ TimedOut(thread[t]))

C3_Witness ==
    \E t \in Threads : TimedOut(thread[t]) /\ thread[t].buffer = <<>>

\* C4: no exception leaves _send_message; whatever was raised by connect,
\* sendall, recv or json.loads is returned as the Failure with its detail.
C4_NoExceptionEscapes ==
    \A t \in Threads :
        thread[t].pc = "ret" =>
            /\ thread[t].ret.exc = None
            /\ thread[t].raised.type # None =>
                  thread[t].ret = TalkError(thread[t].raised.msg)

\* json.loads raised on a malformed reply and the Failure was returned.
C4_Witness ==
    \E t \in Threads :
        /\ thread[t].pc = "ret"
        /\ thread[t].raised.type = "ValueError"
        /\ thread[t].ret = TalkError("No JSON object could be decoded")

\* C5: a decoded object with "result" gives Success(result), also when it
\* has "error" too; one with "error" and no "result" gives Failure with the
\* daemon's error value as it is.
C5_ResultThenError ==
    \A t \in Threads :
        Decoded(thread[t]) =>
            LET response == Response(thread[t]) IN
            /\ "result" \in response.keys => thread[t].ret = Success(response.result)
            /\ "error" \in response.keys /\ "result" \notin response.keys =>
                  thread[t].ret = Failure(response.error)

\* C6: a decoded object with neither "result" nor "error" gives the Failure
\* "Unknown response from netconnectd: " followed by repr(response), and no
\* exception.
C6_UnknownResponse ==
    \A t \in Threads :
        Decoded(thread[t]) /\ Response(thread[t]).keys \cap {"result", "error"} = {} =>
            /\ thread[t].raised = NoException
            /\ thread[t].ret =
                  Failure("Unknown response from netconnectd: " \o Repr(Response(thread[t])))

\* The reply {"foo": 1}, padded, was answered that way.
C6_Witness ==
    \E t \in Threads :
        /\ Decoded(thread[t])
        /\ Response(thread[t]).keys = {"foo"}
        /\ thread[t].buffer[1] = WS
        /\ thread[t].ret = Failure("Unknown response from netconnectd: {u'foo': 1}")

ConfigureWrapper == "_configure_and_select_wifi"

\* C7: in _configure_and_select_wifi, config_wifi is the first request;
\* start_wifi is sent only as the next request after config_wifi returned
\* Success; a failed step is the last one and the operation raises with
\* that step's message; the two transactions do not overlap.
C7_ConfigThenStart ==
    \A t \in Threads :
        LET s == thread[t]
            h == s.hist
        IN  HandlerOf(s) = "on_api_command" /\ CommandOf(s) = "configure_wifi" =>
              /\ Sequential(h)
              /\ Len(h) >= 1 => h[1] = <<"call", "config_wifi">>
              /\ \A i \in 1..Len(h) :
                    /\ h[i][1] = "call" => i \in {1, 3}
                    /\ h[i] = <<"call", "start_wifi">> =>
                          i = 3 /\ h[2][3] = "True"
              /\ Len(h) >= 2 /\ FailedRet(h[2]) =>
                    /\ s.pc = "ret" \/ Ended(s)
                    /\ Ended(s) =>
                          /\ h = <<h[1], h[2],
                                   <<"out", ConfigureWrapper, "RuntimeError",
                                     "Error while configuring wifi: " \o h[2][4]>>>>
                          /\ s.result.kind = "raise"
              /\ Len(h) >= 4 /\ FailedRet(h[4]) =>
                    /\ s.pc = "ret" \/ Ended(s)
                    /\ Ended(s) =>
                          /\ h[5] = <<"out", ConfigureWrapper, "RuntimeError",
                                      "Error while selecting wifi: " \o h[4][4]>>
                          /\ s.result.kind = "raise"

\* config_wifi was rejected by the daemon: the command ended, raising, and
\* start_wifi was never sent.
C7_Witness ==
    \E t \in Threads :
        /\ Ended(thread[t])
        /\ thread[t].result.command = "configure_wifi"
        /\ thread[t].result.kind = "raise"
        /\ Len(thread[t].hist) = 3
        /\ thread[t].hist[2] = <<"ret", "config_wifi", "False", ErrString>>

\* C8: _get_country_list never raises: it returns the daemon's country and
\* countries on a well-formed Success and the empty result otherwise.
C8_CountryListNeverRaises ==
    \A t \in Threads :
        LET h == thread[t].hist IN
        \A i \in 1..Len(h) :
            /\ h[i][1] = "ret" /\ h[i][2] = "country_list" /\ i < Len(h) =>
                  h[i + 1][1] = "out" /\ h[i + 1][2] = "_get_country_list"
            /\ h[i][1] = "out" /\ h[i][2] = "_get_country_list" =>
                  /\ h[i][3] = None
                  /\ h[i][4] = IF h[i - 1][3] = "True" /\ h[i - 1][4] = Countries
                                 THEN Countries ELSE EmptyCountries

\* The daemon answered country_list with the error "unknown command" and
\* _get_country_list returned the empty result.
C8_Witness ==
    \E t \in Threads :
        LET h == thread[t].hist IN
        /\ Len(h) >= 2
        /\ h[Len(h)] = <<"out", "_get_country_list", None, EmptyCountries>>
        /\ h[Len(h) - 1] = <<"ret", "country_list", "False", ErrString>>

\* C9: when the transaction of a wrapper other than _get_country_list
\* returned Failure, the wrapper raises (RuntimeError) and nothing of the
\* handler follows; an on_api_command that ran it ends raising.
C9_FailureIsRaised ==
    \A t \in Threads :
        LET s == thread[t]
            h == s.hist
        IN  \A i \in 1..Len(h) :
              FailedRet(h[i]) /\ h[i][2] # "country_list" =>
                /\ s.pc = "ret" \/ Ended(s)
                /\ Ended(s) =>
                      /\ Len(h) = i + 1
                      /\ h[i + 1][1] = "out" /\ h[i + 1][3] = "RuntimeError"
                      /\ s.result.handler = "on_api_command" => s.result.kind = "raise"

\* A transaction of on_api_command timed out and the command ended raising.
C9_Witness ==
    \E t \in Threads :
        LET s == thread[t]
            h == s.hist
        IN  /\ Ended(s)
            /\ s.result.handler = "on_api_command"
            /\ s.result.kind = "raise"
            /\ Len(h) >= 3
            /\ h[Len(h) - 1][1] = "ret"
            /\ h[Len(h) - 1][4] = "Error while talking to netconnectd: timed out"
            /\ h[Len(h)][3] = "RuntimeError"

\* C10: in on_api_get, status is the first transaction; list_wifi is called
\* only right after _get_status returned a status with wifi.present true;
\* with wifi.present false list_wifi is never called and the answer's wifi
\* list is empty; the transactions do not overlap.
C10_ListAfterStatus ==
    \A t \in Threads :
        LET s == thread[t]
            h == s.hist
        IN  HandlerOf(s) = "on_api_get" =>
              /\ Sequential(h)
              /\ Len(h) >= 1 => h[1] = <<"call", "status">>
              /\ \A i \in 1..Len(h) :
                    h[i] = <<"call", "list_wifi">> =>
                      /\ i = 4
                      /\ h[2] = <<"ret", "status", "True", StatusOn>>
                      /\ h[3] = <<"out", "_get_status", None, StatusOn>>
              /\ Len(h) >= 2 /\ h[2] = <<"ret", "status", "True", StatusOff>> =>
                    /\ \A i \in 1..Len(h) : h[i] # <<"call", "list_wifi">>
                    /\ Ended(s) => s.result.body = "answer" /\ s.result.wifis = "[]"

\* on_api_get ended after a status with wifi.present false: the answer has
\* the empty wifi list.
C10_Witness ==
    \E t \in Threads :
        LET s == thread[t] IN
        /\ Ended(s)
        /\ s.result.handler = "on_api_get"
        /\ s.hist[2] = <<"ret", "status", "True", StatusOff>>
        /\ s.result.body = "answer"
        /\ s.result.wifis = "[]"

\* buffer is the reply frame of the JSON text d: d, whitespace around it,
\* then the one NUL.
IsFrameOf(buffer, d) ==
    \E i \in 0..pad, j \in 0..pad : buffer = Pad(i) \o d \o Pad(j) \o <<NUL>>

HasNul(buffer) == \E i \in 1..Len(buffer) : buffer[i] = NUL

SocketErrors == {"socket.error", "socket.timeout"}

\* C11: however the reply frame is cut into chunks of 1 to 16 bytes, the
\* receive loop goes on while no chunk carried the terminator and ends with
\* the chunk that carries it, and json.loads is then given the JSON text of
\* the frame: the frame without its NUL and without the whitespace around.
C11_SplitIndependentDecoding ==
    \A t \in Threads :
        LET s == thread[t] IN
        /\ s.pc = "recv" => ~HasNul(s.buffer) /\ s.text = <<>>
        /\ s.pc = "ret" /\ s.raised.type \notin SocketErrors => s.text # <<>>
        /\ s.text # <<>> =>
              /\ s.pc = "ret"
              /\ \E d \in Docs(s.message) : IsFrameOf(s.buffer, d) /\ s.text = <<d>>

\* A reply frame longer than one recv(16) can return, so received in two
\* chunks at least, with whitespace on both sides of the JSON text, was
\* decoded and answered with its result.
C11_Witness ==
    \E t \in Threads :
        LET s == thread[t] IN
        /\ s.pc = "ret"
        /\ Len(s.buffer) > ChunkSize
        /\ s.buffer[1] = WS /\ s.buffer[Len(s.buffer) - 1] = WS
        /\ s.text = << <<"{", StatusOn, "}">> >>
        /\ s.ret = Success(StatusOn)

\* The parameter objects of a command, the empty object if it has none.
ParamsOf(message) ==
    CASE message = "list_wifi" -> {"{}", "{\"force\":true}"}
      [] message = "config_wifi" ->
            {"{\"ssid\":\"home\",\"psk\":\"secret\",\"force\":false}"}
      [] message = "set_country" -> {"{\"country_code\":\"DE\"}"}
      [] OTHER -> {"{}"}

\* The request frame of a command: an object with the one key, then NUL.
RequestFrames(message) ==
    {<<"{", "\"" \o message \o "\":" \o params, "}", NUL>> : params \in ParamsOf(message)}

\* C12: what a call of _send_message has written to its socket is nothing
\* (before sendall, or when connect or sendall failed) or exactly one request
\* frame: one JSON object whose one key is the command and whose value is the
\* parameter object, then one NUL.  The frame is out before the first recv,
\* and nothing is added to it afterwards.
C12_OneRequestFrame ==
    \A t \in Threads :
        LET s == thread[t] IN
        s.pc # "idle" =>
          /\ s.wire = <<>> \/ s.wire \in RequestFrames(s.message)
          /\ s.pc \in {"connect", "send"} => s.wire = <<>>
          /\ s.pc = "recv" \/ s.buffer # <<>> \/ s.eof \/ s.text # <<>> =>
                s.wire \in RequestFrames(s.message)
          /\ s.pc = "ret" /\ s.wire = <<>> => s.raised.type = "socket.error"

\* refresh_wifi: list_wifi went out with its force parameter, as one frame,
\* and the reply was read and returned.
C12_Witness ==
    \E t \in Threads :
        LET s == thread[t] IN
        /\ s.pc = "ret"
        /\ s.message = "list_wifi"
        /\ s.wire = <<"{", "\"list_wifi\":{\"force\":true}", "}", NUL>>
        /\ s.ret = Success(Wifis)

\* Thread t is inside _log_state_timed(): a poll of the status is going on.
Polling(t) == thread[t].stack # <<>> /\ thread[t].stack[1] = "_log_state_timed"

\* A poll of thread t has ended, by return or by an exception.
Polled(t) == thread[t].stack = <<>> /\ thread[t].result.handler = "_log_state_timed"

\* C13: the poller goes on polling: a poll of the status that has ended is
\* eventually followed by another poll.  In the code the Timer function runs
\* _log_state_timed() with delay 0, which logs the status once and starts no
\* Timer, so the first poll is the last.
C13_PolledRepeatedly ==
    \A t \in Threads : Polled(t) ~> Polling(t)

AloneOutcome(d) ==
    CASE d = <<"{", "}">> -> Failure("Unknown response from netconnectd: {}")
      [] d = <<"{", FooMember, "}">> ->
            Failure("Unknown response from netconnectd: {u'foo': 1}")
      [] d = <<"{", ErrString, "}">> -> Failure(ErrString)
      [] d = <<"{", ErrNumber, "}">> ->
            TalkError("cannot concatenate 'str' and 'int' objects")
      [] d = <<"{", Opaque, ErrString, "}">> -> Success(Opaque)
      [] Len(d) = 3 /\ d[2] \in Payloads -> Success(d[2])
      [] OTHER -> TalkError("No JSON object could be decoded")

\* C15: with the request thread and the Timer thread in _send_message at the
\* same time, under every interleaving, each call has a connection of its
\* own, what it has accumulated is the beginning of a reply to its own
\* request, and when it has returned its outcome is the one the same
\* exchange has when it runs alone.
C15_TransactionsIndependent ==
    \A t \in Threads :
        LET s == thread[t] IN
        s.pc \in {"connect", "send", "recv", "ret"} =>
          /\ s.opened = 1
          /\ \E f \in FramesOf[pad][s.message] : IsPrefix(s.buffer, f)
          /\ s.pc = "ret" =>
                \/ /\ s.raised.type = "socket.error"
                   /\ s.buffer = <<>>
                   /\ s.ret = TalkError(s.raised.msg)
                \/ /\ s.raised.type = "socket.timeout"
                   /\ ~HasNul(s.buffer)
                   /\ s.ret = TalkError("timed out")
                \/ /\ s.raised.type \notin SocketErrors
                   /\ \E d \in Docs(s.message) :
                         IsFrameOf(s.buffer, d) /\ s.ret = AloneOutcome(d)

\* The request thread got the wifi list while the Timer thread was in the
\* middle of the reply to its status request.
C15_Witness ==
    /\ thread["api"].pc = "ret"
    /\ thread["api"].message = "list_wifi"
    /\ thread["api"].ret = Success(Wifis)
    /\ thread["timer"].pc = "recv"
    /\ thread["timer"].message = "status"
    /\ thread["timer"].buffer = <<"{", StatusOn>>

\* adminRequired and the answer of admin_permission.can() of the
\* on_api_command thread t runs, or of the last one it ran.
AdminRequiredOf(s) == IF s.stack # <<>> THEN s.adminRequired ELSE s.result.adminRequired

CanOf(s) == IF s.stack # <<>> THEN s.can ELSE s.result.can

\* C16: an on_api_command with adminRequired true whose caller has no admin
\* permission, for a command other than refresh_wifi, has ended with the
\* response 403 "Insufficient rights" and has called _send_message for
\* nothing.
C16_NoRightsNoRequest ==
    \A t \in Threads :
        LET s == thread[t] IN
        /\ HandlerOf(s) = "on_api_command"
        /\ CommandOf(s) # "refresh_wifi"
        /\ AdminRequiredOf(s) = "True"
        /\ CanOf(s) = "False"
        => /\ Ended(s)
           /\ s.result.kind = "return"
           /\ s.result.code = "403"
           /\ s.result.body = "Insufficient rights"
           /\ s.hist = <<>>
           /\ s.pc = "idle" /\ s.wire = <<>>

\* set_country without the admin permission was answered with 403.
C16_Witness ==
    \E t \in Threads :
        LET s == thread[t] IN
        /\ Ended(s)
        /\ s.result.handler = "on_api_command"
        /\ s.result.command = "set_country"
        /\ s.result.adminRequired = "True"
        /\ s.result.can = "False"
        /\ s.result.code = "403"
        /\ s.hist = <<>>

\* A transaction of the handler returned Failure.
SomeFailure(h) == \E i \in 1..Len(h) : FailedRet(h[i])

\* C17: an on_api_command that has ended wrote exactly one analytics record,
\* and a record with success = True is never there together with a failed
\* transaction of the command.  The refresh_wifi branch writes success = True
\* before it calls _get_wifi_list, and the except clause adds a second
\* record when that call fails.
C17_OneTruthfulRecord ==
    \A t \in Threads :
        LET s == thread[t] IN
        HandlerOf(s) = "on_api_command" =>
          /\ Ended(s) => Len(s.written) = 1
          /\ \A i \in 1..Len(s.written) :
                s.written[i].success => ~SomeFailure(s.hist)

\* The transaction for message m of the handler returned Failure.
FailedFor(h, m) == \E i \in 1..Len(h) : FailedRet(h[i]) /\ h[i][2] = m

Called(h, m) == \E i \in 1..Len(h) : h[i] = <<"call", m>>

\* C18: on_api_get ends by a return, never by an exception.  When its
\* status or list_wifi transaction failed, country_list is not requested and
\* the response is the object with the error message of the wrapper; when
\* only country_list failed, the response is the full answer, with the
\* status and the wifi list, country "" and no countries.
C18_OnApiGetNeverRaises ==
    \A t \in Threads :
        LET s == thread[t]
            h == s.hist
        IN  HandlerOf(s) = "on_api_get" =>
              /\ Ended(s) => s.result.kind = "return"
              /\ FailedFor(h, "status") \/ FailedFor(h, "list_wifi") =>
                    /\ ~Called(h, "country_list")
                    /\ Ended(s) =>
                          /\ s.result.body = "error"
                          /\ h[Len(h)][1] = "out" /\ h[Len(h)][3] = "RuntimeError"
                          /\ s.result.code = h[Len(h)][4]
              /\ FailedFor(h, "country_list") /\ Ended(s) =>
                    /\ s.result.body = "answer"
                    /\ s.result.country = "" /\ s.result.countries = "[]"
                    /\ s.result.status = h[2][4]
                    /\ s.result.wifis \in
                          {"[]", "[{ssid:home,address:aa:bb,quality:80,encrypted:true}]"}

\* status and list_wifi succeeded, the daemon does not know country_list:
\* on_api_get returned the answer with the wifi list and no countries.
C18_Witness ==
    \E t \in Threads :
        LET s == thread[t]
            h == s.hist
        IN  /\ Ended(s)
            /\ s.result.handler = "on_api_get"
            /\ Len(h) = 9
            /\ h[5] = <<"ret", "list_wifi", "True", Wifis>>
            /\ h[8] = <<"ret", "country_list", "False", ErrString>>
            /\ s.result.body = "answer"
            /\ s.result.status = StatusOn
            /\ s.result.country = "" /\ s.result.countries = "[]"

====
